---- MODULE Spec2Model ----
(***************************************************************************)
(* Account management app (src/app.js): a React single-page app whose      *)
(* "database" is the module-level array userDatabase, mirrored into the    *)
(* localStorage slot 'users'.  Strings are modelled as sequences of        *)
(* one-character strings so that trim(), the email regex and the password  *)
(* strength classifier are computed character by character.                *)
(***************************************************************************)
EXTENDS Integers, Sequences, FiniteSets

\* ------------------------------------------------------------------ bounds
\* Largest number of records the collection may hold before registration is
\* no longer attempted.
MaxUsers == 2
\* Largest value the millisecond clock Date.now() reaches.
MaxClock == 2
\* Largest number of pending 1.5 s redirect timers of one instance.
MaxTimers == 1

\* ----------------------------------------------------------- characters
LowerChars == {"a", "b", "c", "d", "e", "o", "p", "r", "s", "t", "w", "x"}
UpperChars == {"A", "B", "L", "P"}
DigitChars == {"0", "1", "2", "3", "4", "5", "6", "7", "8", "9"}
\* what the regex class \s and String.prototype.trim treat as white space
Whitespace == {" ", "\t"}

\* null is the empty sequence, a value v that is present is <<v>>
NULL == <<>>
Some(v) == <<v>>
The(opt) == opt[1]

\* ------------------------------------------------------ string functions
RECURSIVE TrimStart(_)
TrimStart(s) ==
  IF s # <<>> /\ Head(s) \in Whitespace THEN TrimStart(Tail(s)) ELSE s

RECURSIVE TrimEnd(_)
TrimEnd(s) ==
  IF s # <<>> /\ s[Len(s)] \in Whitespace
    THEN TrimEnd(SubSeq(s, 1, Len(s) - 1))
    ELSE s

\* String.prototype.trim
Trim(s) == TrimEnd(TrimStart(s))

\* the regex class [^\s@]
NotSpaceNorAt(c) == c \notin Whitespace /\ c # "@"

\* s[from..to] matches [^\s@]+
AllNotSpaceNorAt(s, from, to) ==
  /\ from <= to
  /\ \A k \in from..to : NotSpaceNorAt(s[k])

\* an email test asking for an @ only
validateEmailAtOnly(email) == \E i \in 1..Len(email) : email[i] = "@"

\* /^[^\s@]+@[^\s@]+\.[^\s@]+$/.test(email)
validateEmail(email) ==
  \E i \in 1..Len(email) : \E j \in 1..Len(email) :
    /\ i < j
    /\ email[i] = "@"
    /\ email[j] = "."
    /\ AllNotSpaceNorAt(email, 1, i - 1)
    /\ AllNotSpaceNorAt(email, i + 1, j - 1)
    /\ AllNotSpaceNorAt(email, j + 1, Len(email))

\* /[a-z]/.test(s), /[A-Z]/.test(s), /[0-9]/.test(s), /[^a-zA-Z0-9]/.test(s)
HasLower(s) == \E k \in 1..Len(s) : s[k] \in LowerChars
HasUpper(s) == \E k \in 1..Len(s) : s[k] \in UpperChars
HasDigit(s) == \E k \in 1..Len(s) : s[k] \in DigitChars
HasOther(s) ==
  \E k \in 1..Len(s) : s[k] \notin (LowerChars \cup UpperChars \cup DigitChars)

\* the counter "strength" after the five increments of calculatePasswordStrength
StrengthScore(password) ==
  LET s1 == IF Len(password) >= 8 THEN 1 ELSE 0
      s2 == IF HasLower(password) THEN s1 + 1 ELSE s1
      s3 == IF HasUpper(password) THEN s2 + 1 ELSE s2
      s4 == IF HasDigit(password) THEN s3 + 1 ELSE s3
      s5 == IF HasOther(password) THEN s4 + 1 ELSE s4
  IN  s5

\* the classifier with its first threshold off by one
calculatePasswordStrengthBelowTwo(password) ==
  IF Len(password) < 6 THEN "weak"
  ELSE IF StrengthScore(password) < 2 THEN "weak"
  ELSE IF StrengthScore(password) <= 4 THEN "medium"
  ELSE "strong"

calculatePasswordStrength(password) ==
  IF Len(password) < 6 THEN "weak"
  ELSE IF StrengthScore(password) <= 2 THEN "weak"
  ELSE IF StrengthScore(password) <= 4 THEN "medium"
  ELSE "strong"

\* ---------------------------------------------------------------- inputs
\* the instances (browser tabs) of the app that share one localStorage
Tabs == {1, 2}

nameA      == <<"A">>
nameBpad   == <<" ", "B", " ">>
nameBlank  == <<" ", "\t">>
lastL      == <<"L">>
emailLow   == <<"a", "@", "b", ".", "c">>
emailUp    == <<"A", "@", "b", ".", "c">>
emailNoDot == <<"a", "@", "b">>
emailPad   == <<" ", "a", "@", "b", ".", "c">>
pwSecret   == <<"s", "e", "c", "r", "e", "t">>
pwOther    == <<"P", "a", "s", "s", "1", "!">>
pwShort    == <<"a", "b", "c">>

Form(f, l, e, p, c) ==
  [firstName |-> f, lastName |-> l, email |-> e, password |-> p,
   confirmPassword |-> c]

\* registration forms that pass validateForm
ValidRegForms ==
  { Form(nameA, lastL, emailLow, pwSecret, pwSecret),
    Form(nameA, lastL, emailUp, pwSecret, pwSecret),
    Form(nameBpad, lastL, emailLow, pwOther, pwOther) }

\* registration forms with one defect each, and one with every defect
InvalidRegForms ==
  { Form(nameBlank, lastL, emailLow, pwSecret, pwSecret),
    Form(nameA, <<>>, emailLow, pwSecret, pwSecret),
    Form(nameA, lastL, emailNoDot, pwSecret, pwSecret),
    Form(nameA, lastL, emailPad, pwSecret, pwSecret),
    Form(nameA, lastL, emailLow, pwShort, pwShort),
    Form(nameA, lastL, emailLow, pwSecret, pwOther),
    Form(<<>>, nameBlank, <<>>, <<>>, <<>>) }

RegForms == ValidRegForms \cup InvalidRegForms

Credentials(e, p) == [email |-> e, password |-> p]

\* what is typed into the login form
LoginForms ==
  { Credentials(emailLow, pwSecret),
    Credentials(emailLow, pwOther),
    Credentials(emailUp, pwSecret),
    Credentials(emailLow, <<>>),
    Credentials(emailNoDot, pwSecret),
    Credentials(<<>>, <<>>) }

Edit(f, l, e) == [firstName |-> f, lastName |-> l, email |-> e]

EditForms ==
  { Edit(nameA, lastL, emailLow),
    Edit(nameA, lastL, emailUp),
    Edit(nameBpad, lastL, emailUp),
    Edit(nameBlank, lastL, emailLow),
    Edit(nameA, <<>>, <<>>),
    Edit(nameA, lastL, emailPad) }

\* ----------------------------------------------------------------- state
VARIABLES
  userDatabase,      \* [tab -> the module-level array of that instance]
  localStorage,      \* the 'users' slot: NULL while absent, else Some(JSON text)
  now,               \* the value Date.now() returns
  currentPage,       \* [tab -> "login" | "register" | "profile"]   (App state)
  currentUser,       \* [tab -> NULL or Some(user record)]           (App state)
  error,             \* [tab -> form-level error of the mounted page]
  fieldErrors,       \* [tab -> set of <<field, message>> of the mounted page]
  isEditing,         \* [tab -> ProfilePage edit mode]
  loginForm,         \* [tab -> email and password of the mounted LoginPage]
  formData,          \* [tab -> formData of the mounted RegisterPage]
  editData,          \* [tab -> editData of the mounted ProfilePage]
  timers,            \* [tab -> number of pending 1.5 s redirect timers]
  passwordInput,     \* the password field of the registration form being typed
  passwordStrength   \* RegisterPage.passwordStrength

vars == <<userDatabase, localStorage, now, currentPage, currentUser, error,
          fieldErrors, isEditing, loginForm, formData, editData, timers,
          passwordInput, passwordStrength>>

appVars == <<userDatabase, localStorage, now, currentPage, currentUser, error,
             fieldErrors, isEditing, loginForm, formData, editData, timers>>

\* the form fields of the three pages
forms == <<loginForm, formData, editData>>

\* the useState defaults of the forms of LoginPage and RegisterPage, which
\* also stand for the forms of a page that is not mounted
NoCredentials == Credentials(<<>>, <<>>)
NoFormData == Form(<<>>, <<>>, <<>>, <<>>, <<>>)
NoEditData == Edit(<<>>, <<>>, <<>>)

\* the useState default of ProfilePage.editData for the prop user
EditDataOf(user) == Edit(user.firstName, user.lastName, user.email)

\* ------------------------------------------------------------- JSON, clock
Digit(n) == CASE n = 0 -> "0" [] n = 1 -> "1" [] n = 2 -> "2" [] n = 3 -> "3"
              [] n = 4 -> "4" [] n = 5 -> "5" [] n = 6 -> "6" [] n = 7 -> "7"
              [] n = 8 -> "8" [] n = 9 -> "9"

\* Number.prototype.toString for a non-negative integer
RECURSIVE ToString(_)
ToString(n) ==
  IF n < 10 THEN <<Digit(n)>> ELSE ToString(n \div 10) \o <<Digit(n % 10)>>

\* Date.prototype.toISOString of the instant t (its millisecond count, tagged)
ToISOString(t) == ToString(t) \o <<"Z">>

\* the keys of a user object, in the order the object literal creates them
UserKeys == <<"id", "firstName", "lastName", "email", "password", "memberSince">>

\* JSON text of one user object: its key/value pairs in insertion order
StringifyUser(u) == [k \in 1..Len(UserKeys) |-> <<UserKeys[k], u[UserKeys[k]]>>]

\* JSON.stringify(userDatabase)
JSONStringify(db) == [k \in 1..Len(db) |-> StringifyUser(db[k])]

\* the value of key in the JSON text of one object
ParsedValue(text, key) ==
  LET k == CHOOSE k \in 1..Len(text) : text[k][1] = key IN text[k][2]

ParseUser(text) ==
  [id          |-> ParsedValue(text, "id"),
   firstName   |-> ParsedValue(text, "firstName"),
   lastName    |-> ParsedValue(text, "lastName"),
   email       |-> ParsedValue(text, "email"),
   password    |-> ParsedValue(text, "password"),
   memberSince |-> ParsedValue(text, "memberSince")]

\* JSON.parse(localStorage.getItem('users')) || []
LoadUsers(slot) ==
  IF slot = NULL
    THEN <<>>
    ELSE [k \in 1..Len(The(slot)) |-> ParseUser(The(slot)[k])]

\* updateLocalStorage writing nothing: the slot keeps what it held
updateLocalStorageSkipped(db) == localStorage

\* the value updateLocalStorage stores in the 'users' slot for the array db
updateLocalStorage(db) == Some(JSONStringify(db))

\* ------------------------------------------------------------- array scans
\* index of the first element of db among those at the positions in
\* matching, 0 when there is none (Array.prototype.find / findIndex scan
\* from the front and stop at the first element the callback accepts)
FindIndex(db, matching) ==
  IF matching \cap (1..Len(db)) # {}
    THEN CHOOSE k \in matching \cap (1..Len(db)) :
           \A m \in matching \cap (1..Len(db)) : k <= m
    ELSE 0

\* --------------------------------------------------------- RegisterPage
\* the entries validateForm adds to its errors object, a set of
\* <<field, message>>, field by field
NameErrors(submitted) ==
  (IF Trim(submitted.firstName) = <<>>
     THEN {<<"firstName", "First name is required">>} ELSE {})
  \cup
  (IF Trim(submitted.lastName) = <<>>
     THEN {<<"lastName", "Last name is required">>} ELSE {})

EmailErrors(submitted) ==
  IF Trim(submitted.email) = <<>>
    THEN {<<"email", "Email is required">>}
    ELSE IF ~validateEmail(submitted.email)
      THEN {<<"email", "Please enter a valid email address">>} ELSE {}

\* the password check without its length branch
PasswordErrorsRequiredOnly(submitted) ==
  IF submitted.password = <<>>
    THEN {<<"password", "Password is required">>} ELSE {}

PasswordErrors(submitted) ==
  IF submitted.password = <<>>
    THEN {<<"password", "Password is required">>}
    ELSE IF Len(submitted.password) < 6
      THEN {<<"password", "Password must be at least 6 characters">>} ELSE {}

ConfirmErrors(submitted) ==
  IF submitted.confirmPassword = <<>>
    THEN {<<"confirmPassword", "Please confirm your password">>}
    ELSE IF submitted.password # submitted.confirmPassword
      THEN {<<"confirmPassword", "Passwords do not match">>} ELSE {}

\* the errors object validateForm builds
ValidateForm(submitted) ==
  NameErrors(submitted) \cup EmailErrors(submitted) \cup PasswordErrors(submitted)
    \cup ConfirmErrors(submitted)

\* the duplicate check comparing the wrong field of the records
ExistingUserWrongField(db, email) ==
  FindIndex(db, {k \in 1..Len(db) : db[k].firstName = email}) # 0

\* userDatabase.find((u) => u.email === formData.email) is not undefined
ExistingUser(db, email) ==
  FindIndex(db, {k \in 1..Len(db) : db[k].email = email}) # 0

\* the newUser object of handleSubmit, created at clock value t
NewUser(submitted, t) ==
  [id          |-> ToString(t),
   firstName   |-> Trim(submitted.firstName),
   lastName    |-> Trim(submitted.lastName),
   email       |-> Trim(submitted.email),
   password    |-> submitted.password,
   memberSince |-> ToISOString(t)]

\* what rendering page with currentUser user does to the state of the page
\* components: a page that stays mounted keeps its state, a page entered
\* starts from its useState defaults and the page left loses its state
Mounted(t, page, user) ==
  IF page = currentPage[t]
    THEN UNCHANGED <<error, fieldErrors, isEditing, forms>>
    ELSE /\ error' = [error EXCEPT ![t] = ""]
         /\ fieldErrors' = [fieldErrors EXCEPT ![t] = {}]
         /\ isEditing' = [isEditing EXCEPT ![t] = FALSE]
         /\ loginForm' = [loginForm EXCEPT ![t] = NoCredentials]
         /\ formData' = [formData EXCEPT ![t] = NoFormData]
         /\ editData' = [editData EXCEPT ![t] =
              IF page = "profile" THEN EditDataOf(The(user)) ELSE NoEditData]

\* RegisterPage.handleSubmit, the form holding submitted
RegisterSubmit(t, submitted) ==
  /\ currentPage[t] = "register"
  /\ formData' = [formData EXCEPT ![t] = submitted]
  /\ UNCHANGED <<now, currentPage, currentUser, isEditing, loginForm, editData,
                 passwordInput, passwordStrength>>
  /\ IF ValidateForm(submitted) # {}
       THEN /\ error' = [error EXCEPT ![t] = ""]
            /\ fieldErrors' = [fieldErrors EXCEPT ![t] = ValidateForm(submitted)]
            /\ UNCHANGED <<userDatabase, localStorage, timers>>
     ELSE IF ExistingUser(userDatabase[t], submitted.email)
       THEN /\ error' = [error EXCEPT ![t] =
                           "An account with this email already exists"]
            /\ fieldErrors' = [fieldErrors EXCEPT ![t] = {}]
            /\ UNCHANGED <<userDatabase, localStorage, timers>>
     ELSE /\ Len(userDatabase[t]) < MaxUsers
          /\ timers[t] < MaxTimers
          /\ error' = [error EXCEPT ![t] = ""]
          /\ fieldErrors' = [fieldErrors EXCEPT ![t] = {}]
          /\ userDatabase' = [userDatabase EXCEPT ![t] =
                                Append(@, NewUser(submitted, now))]
          /\ localStorage' = updateLocalStorage(userDatabase'[t])
          /\ timers' = [timers EXCEPT ![t] = @ + 1]

\* the callback of setTimeout(() => onNavigate('login'), 1500)
RedirectTimer(t) ==
  /\ timers[t] > 0
  /\ timers' = [timers EXCEPT ![t] = @ - 1]
  /\ currentPage' = [currentPage EXCEPT ![t] = "login"]
  /\ Mounted(t, "login", currentUser[t])
  /\ UNCHANGED <<userDatabase, localStorage, now, currentUser, passwordInput,
                 passwordStrength>>

\* ------------------------------------------------------------ LoginPage
\* the credential scan comparing the email alone
FindUserEmailOnly(db, email, pw) ==
  FindIndex(db, {k \in 1..Len(db) : db[k].email = email})

\* userDatabase.find((u) => u.email === email && u.password === password)
FindUser(db, email, pw) ==
  FindIndex(db, {k \in 1..Len(db) :
                   db[k].email = email /\ db[k].password = pw})

\* App.handleLogin
handleLogin(t, user) ==
  /\ currentUser' = [currentUser EXCEPT ![t] = Some(user)]
  /\ currentPage' = [currentPage EXCEPT ![t] = "profile"]
  /\ Mounted(t, "profile", Some(user))

\* LoginPage.handleSubmit, the form holding email and pw
LoginSubmit(t, email, pw) ==
  /\ currentPage[t] = "login"
  /\ UNCHANGED <<userDatabase, localStorage, now, timers, passwordInput,
                 passwordStrength>>
  /\ IF ~validateEmail(email)
       THEN /\ error' = [error EXCEPT ![t] = ""]
            /\ fieldErrors' = [fieldErrors EXCEPT ![t] =
                 {<<"email", "Please enter a valid email address">>}]
            /\ loginForm' = [loginForm EXCEPT ![t] = Credentials(email, pw)]
            /\ UNCHANGED <<currentUser, currentPage, isEditing, formData, editData>>
     ELSE IF pw = <<>>
       THEN /\ error' = [error EXCEPT ![t] = ""]
            /\ fieldErrors' = [fieldErrors EXCEPT ![t] =
                 {<<"password", "Password is required">>}]
            /\ loginForm' = [loginForm EXCEPT ![t] = Credentials(email, pw)]
            /\ UNCHANGED <<currentUser, currentPage, isEditing, formData, editData>>
     ELSE IF FindUser(userDatabase[t], email, pw) # 0
       THEN handleLogin(t, userDatabase[t][FindUser(userDatabase[t], email, pw)])
     ELSE /\ error' = [error EXCEPT ![t] = "Invalid email or password"]
          /\ fieldErrors' = [fieldErrors EXCEPT ![t] = {}]
          /\ loginForm' = [loginForm EXCEPT ![t] = Credentials(email, pw)]
          /\ UNCHANGED <<currentUser, currentPage, isEditing, formData, editData>>

\* App.handleNavigate, called by the links of LoginPage and RegisterPage
handleNavigate(t, page) ==
  /\ \/ currentPage[t] = "login" /\ page = "register"
     \/ currentPage[t] = "register" /\ page = "login"
  /\ currentPage' = [currentPage EXCEPT ![t] = page]
  /\ Mounted(t, page, currentUser[t])
  /\ UNCHANGED <<userDatabase, localStorage, now, currentUser, timers,
                 passwordInput, passwordStrength>>

\* ---------------------------------------------------------- ProfilePage
\* the errors object validateEditForm builds
ValidateEditForm(edited) ==
  (IF Trim(edited.firstName) = <<>>
     THEN {<<"firstName", "First name is required">>} ELSE {})
  \cup
  (IF Trim(edited.lastName) = <<>>
     THEN {<<"lastName", "Last name is required">>} ELSE {})
  \cup
  (IF Trim(edited.email) = <<>>
     THEN {<<"email", "Email is required">>}
     ELSE IF ~validateEmail(edited.email)
       THEN {<<"email", "Please enter a valid email address">>} ELSE {})

\* the duplicate check of handleSave: the email was changed and
\* userDatabase.find((u) => u.email === editData.email && u.id !== user.id)
\* finds a record
EmailInUse(db, user, email) ==
  /\ email # user.email
  /\ FindIndex(db, {k \in 1..Len(db) :
                      db[k].email = email /\ db[k].id # user.id}) # 0

\* { ...user, firstName: ..., lastName: ..., email: ... }
UpdatedUser(user, edited) ==
  [user EXCEPT !.firstName = Trim(edited.firstName),
               !.lastName  = Trim(edited.lastName),
               !.email     = Trim(edited.email)]

\* userDatabase.findIndex((u) => u.id === user.id), 0 for -1
UserIndex(db, user) ==
  FindIndex(db, {k \in 1..Len(db) : db[k].id = user.id})

\* userDatabase after "if (userIndex !== -1) userDatabase[userIndex] = updatedUser"
ReplaceUser(db, user, updatedUser) ==
  IF UserIndex(db, user) # 0
    THEN [db EXCEPT ![UserIndex(db, user)] = updatedUser]
    ELSE db

\* the "Edit Profile" button: setIsEditing(true)
StartEdit(t) ==
  /\ currentPage[t] = "profile"
  /\ currentUser[t] # NULL
  /\ ~isEditing[t]
  /\ isEditing' = [isEditing EXCEPT ![t] = TRUE]
  /\ UNCHANGED <<userDatabase, localStorage, now, currentPage, currentUser,
                 error, fieldErrors, forms, timers, passwordInput,
                 passwordStrength>>

\* ProfilePage.handleSave, the edit form holding edited
handleSave(t, edited) ==
  /\ currentPage[t] = "profile"
  /\ currentUser[t] # NULL
  /\ isEditing[t]
  /\ editData' = [editData EXCEPT ![t] = edited]
  /\ UNCHANGED <<now, currentPage, error, loginForm, formData, timers,
                 passwordInput, passwordStrength>>
  /\ IF ValidateEditForm(edited) # {}
       THEN /\ fieldErrors' = [fieldErrors EXCEPT ![t] = ValidateEditForm(edited)]
            /\ UNCHANGED <<userDatabase, localStorage, currentUser, isEditing>>
     ELSE IF EmailInUse(userDatabase[t], The(currentUser[t]), edited.email)
       THEN /\ fieldErrors' = [fieldErrors EXCEPT ![t] =
                                 {<<"email", "This email is already in use">>}]
            /\ UNCHANGED <<userDatabase, localStorage, currentUser, isEditing>>
     ELSE /\ fieldErrors' = [fieldErrors EXCEPT ![t] = {}]
          /\ userDatabase' = [userDatabase EXCEPT ![t] =
               ReplaceUser(@, The(currentUser[t]),
                           UpdatedUser(The(currentUser[t]), edited))]
          /\ localStorage' =
               IF UserIndex(userDatabase[t], The(currentUser[t])) # 0
                 THEN updateLocalStorage(userDatabase'[t])
                 ELSE localStorage
          /\ currentUser' = [currentUser EXCEPT ![t] =
                               Some(UpdatedUser(The(currentUser[t]), edited))]
          /\ isEditing' = [isEditing EXCEPT ![t] = FALSE]

\* ProfilePage.handleCancel
handleCancel(t) ==
  /\ currentPage[t] = "profile"
  /\ currentUser[t] # NULL
  /\ isEditing[t]
  /\ editData' = [editData EXCEPT ![t] = EditDataOf(The(currentUser[t]))]
  /\ fieldErrors' = [fieldErrors EXCEPT ![t] = {}]
  /\ isEditing' = [isEditing EXCEPT ![t] = FALSE]
  /\ UNCHANGED <<userDatabase, localStorage, now, currentPage, currentUser,
                 error, loginForm, formData, timers, passwordInput,
                 passwordStrength>>

\* App.handleLogout, the Logout button of ProfilePage
handleLogout(t) ==
  /\ currentPage[t] = "profile"
  /\ currentUser[t] # NULL
  /\ currentUser' = [currentUser EXCEPT ![t] = NULL]
  /\ currentPage' = [currentPage EXCEPT ![t] = "login"]
  /\ Mounted(t, "login", NULL)
  /\ UNCHANGED <<userDatabase, localStorage, now, timers, passwordInput,
                 passwordStrength>>

\* ------------------------------------------------------------ environment
\* the page of instance t is loaded again: the script runs from its first
\* line, pending timers are dropped
Reload(t) ==
  /\ userDatabase' = [userDatabase EXCEPT ![t] = LoadUsers(localStorage)]
  /\ currentPage' = [currentPage EXCEPT ![t] = "login"]
  /\ currentUser' = [currentUser EXCEPT ![t] = NULL]
  /\ error' = [error EXCEPT ![t] = ""]
  /\ fieldErrors' = [fieldErrors EXCEPT ![t] = {}]
  /\ isEditing' = [isEditing EXCEPT ![t] = FALSE]
  /\ loginForm' = [loginForm EXCEPT ![t] = NoCredentials]
  /\ formData' = [formData EXCEPT ![t] = NoFormData]
  /\ editData' = [editData EXCEPT ![t] = NoEditData]
  /\ timers' = [timers EXCEPT ![t] = 0]
  /\ UNCHANGED <<localStorage, now, passwordInput, passwordStrength>>

\* a millisecond passes between two handlers
Tick ==
  /\ now < MaxClock
  /\ now' = now + 1
  /\ UNCHANGED <<userDatabase, localStorage, currentPage, currentUser, error,
                 fieldErrors, isEditing, forms, timers, passwordInput,
                 passwordStrength>>

\* ------------------------------------------------------- specifications
\* every instance freshly loaded over an empty localStorage
Init ==
  /\ localStorage = NULL
  /\ userDatabase = [t \in Tabs |-> LoadUsers(NULL)]
  /\ now = 1
  /\ currentPage = [t \in Tabs |-> "login"]
  /\ currentUser = [t \in Tabs |-> NULL]
  /\ error = [t \in Tabs |-> ""]
  /\ fieldErrors = [t \in Tabs |-> {}]
  /\ isEditing = [t \in Tabs |-> FALSE]
  /\ loginForm = [t \in Tabs |-> NoCredentials]
  /\ formData = [t \in Tabs |-> NoFormData]
  /\ editData = [t \in Tabs |-> NoEditData]
  /\ timers = [t \in Tabs |-> 0]
  /\ passwordInput = <<>>
  /\ passwordStrength = ""

\* one instance of the app (instance 1) and the clock
Next ==
  \/ \E submitted \in RegForms : RegisterSubmit(1, submitted)
  \/ RedirectTimer(1)
  \/ \E typed \in LoginForms : LoginSubmit(1, typed.email, typed.password)
  \/ \E page \in {"login", "register"} : handleNavigate(1, page)
  \/ StartEdit(1)
  \/ \E edited \in EditForms : handleSave(1, edited)
  \/ handleCancel(1)
  \/ handleLogout(1)
  \/ Reload(1)
  \/ Tick

Spec == Init /\ [][Next]_vars

\* ------------------------------------------- two instances, one localStorage
\* the forms the two instances submit
SharedRegForms ==
  { Form(nameA, lastL, emailLow, pwSecret, pwSecret),
    Form(nameBpad, lastL, emailUp, pwSecret, pwSecret) }

SharedEditForms == {Edit(nameBpad, lastL, emailUp)}

\* two instances of the app open on the same origin: each runs its handlers
\* to completion, in any order with the other's
NextShared ==
  \/ \E t \in Tabs, submitted \in SharedRegForms : RegisterSubmit(t, submitted)
  \/ \E t \in Tabs : RedirectTimer(t)
  \/ \E t \in Tabs, email \in {emailLow, emailUp} :
       LoginSubmit(t, email, pwSecret)
  \/ \E t \in Tabs, page \in {"login", "register"} : handleNavigate(t, page)
  \/ \E t \in Tabs : StartEdit(t)
  \/ \E t \in Tabs, edited \in SharedEditForms : handleSave(t, edited)
  \/ \E t \in Tabs : handleCancel(t)
  \/ \E t \in Tabs : handleLogout(t)
  \/ \E t \in Tabs : Reload(t)
  \/ Tick

SpecShared == Init /\ [][NextShared]_vars

\* ------------------------------------------- the password strength meter
\* longest password typed into the registration form
MaxPasswordLen == 8

\* the characters typed one by one: a lowercase letter, an uppercase letter
\* and a digit (symbols come with the pasted passwords)
TypedChars == {"a", "A", "1"}

\* passwords pasted whole into the field
PastedPasswords ==
  { <<"!">>,
    <<"a", "b", "c">>,
    <<"p", "a", "s", "s", "w", "o", "r", "d">>,
    <<"P", "a", "s", "s", "w", "o", "r", "d", "1", "!">>,
    <<"p", "a", "s", "s", " ", "w", "o", "r", "d">> }

\* RegisterPage.handleChange for the field named 'password'
PasswordChange(value) ==
  /\ currentPage[1] = "register"
  /\ passwordInput' = value
  /\ passwordStrength' =
       IF value # <<>> THEN calculatePasswordStrength(value) ELSE ""
  /\ UNCHANGED appVars

TypeChar(c) ==
  /\ Len(passwordInput) < MaxPasswordLen
  /\ PasswordChange(Append(passwordInput, c))

Backspace ==
  /\ passwordInput # <<>>
  /\ PasswordChange(SubSeq(passwordInput, 1, Len(passwordInput) - 1))

Paste(value) == PasswordChange(value)

\* instance 1 showing the registration page, its form still empty
InitStrength ==
  /\ localStorage = NULL
  /\ userDatabase = [t \in Tabs |-> LoadUsers(NULL)]
  /\ now = 1
  /\ currentPage = [t \in Tabs |-> IF t = 1 THEN "register" ELSE "login"]
  /\ currentUser = [t \in Tabs |-> NULL]
  /\ error = [t \in Tabs |-> ""]
  /\ fieldErrors = [t \in Tabs |-> {}]
  /\ isEditing = [t \in Tabs |-> FALSE]
  /\ loginForm = [t \in Tabs |-> NoCredentials]
  /\ formData = [t \in Tabs |-> NoFormData]
  /\ editData = [t \in Tabs |-> NoEditData]
  /\ timers = [t \in Tabs |-> 0]
  /\ passwordInput = <<>>
  /\ passwordStrength = ""

NextStrength ==
  \/ \E c \in TypedChars : TypeChar(c)
  \/ Backspace
  \/ \E value \in PastedPasswords : Paste(value)

SpecStrength == InitStrength /\ [][NextStrength]_vars

\* ================================================================ claims
\* the collection of the one instance the single-instance claims are about
Users == userDatabase[1]

\* the records held by the persisted slot
Persisted == LoadUsers(localStorage)

\* a string with no character other than white space
Blank(str) == \A k \in 1..Len(str) : str[k] \in Whitespace

\* some record of db has this email
EmailStored(db, email) == \E i \in 1..Len(db) : db[i].email = email

DuplicateEmailError == "An account with this email already exists"
InvalidCredentialsError == "Invalid email or password"
EmailInUseError == {<<"email", "This email is already in use">>}

\* A step of instance 1 is a registration submission, or a profile save, of
\* the form it leaves in formData, or editData: both pages stay mounted.
Submitted == formData'[1]
Edited == editData'[1]

\* A login submission that stays on the login page leaves its form in
\* loginForm; one that enters the profile page may have submitted any form.
TypedLogins ==
  IF currentPage[1] = "login" /\ currentPage'[1] = "profile"
    THEN LoginForms
    ELSE {loginForm'[1]}

\* ----------------------------------------------------------------- C1
\* C1: no two distinct records of userDatabase have the same email
\* (compared case-sensitively), after any sequence of registration
\* submissions and profile-edit saves
EmailsUnique ==
  \A i \in 1..Len(Users) : \A j \in 1..Len(Users) :
    i # j => Users[i].email # Users[j].email

\* ----------------------------------------------------------------- C2
\* a registration form as the claims describe a valid one: names not blank,
\* email of the right shape, password of 6 characters or more, confirmation
\* equal to the password
PassesValidation(submitted) ==
  /\ ~Blank(submitted.firstName)
  /\ ~Blank(submitted.lastName)
  /\ validateEmail(submitted.email)
  /\ Len(submitted.password) >= 6
  /\ submitted.confirmPassword = submitted.password

\* the submission was rejected as a duplicate and changed neither the
\* collection nor the slot
RejectedAsDuplicate ==
  /\ error'[1] = DuplicateEmailError
  /\ UNCHANGED <<userDatabase, localStorage>>

\* the submission appended exactly one record, made from the form, at the end
\* of the collection, and the slot holds the new collection
AppendedAndPersisted(submitted) ==
  /\ Len(Users') = Len(Users) + 1
  /\ SubSeq(Users', 1, Len(Users)) = Users
  /\ Users'[Len(Users')].email = submitted.email
  /\ Users'[Len(Users')].password = submitted.password
  /\ LoadUsers(localStorage') = Users'

\* C2 as stated: every registration submission whose email equals the email
\* of an existing record fails with the duplicate-email error and leaves the
\* collection and the slot unchanged; a submission that passes validation and
\* whose email matches no record appends one record at the end and persists it
CreateAsStated ==
  [][RegisterSubmit(1, Submitted) =>
       /\ EmailStored(Users, Submitted.email) => RejectedAsDuplicate
       /\ (PassesValidation(Submitted) /\ ~EmailStored(Users, Submitted.email))
            => AppendedAndPersisted(Submitted)]_vars

\* C2 amended: a registration submission that passes validation and whose
\* email equals the email of an existing record fails with the
\* duplicate-email error; every submission whose email equals the email of an
\* existing record leaves the collection and the slot unchanged; a submission
\* that passes validation and whose email matches no record appends one
\* record at the end and persists it
CreateChecksDuplicates ==
  [][RegisterSubmit(1, Submitted) =>
       /\ EmailStored(Users, Submitted.email)
            => UNCHANGED <<userDatabase, localStorage>>
       /\ (PassesValidation(Submitted) /\ EmailStored(Users, Submitted.email))
            => RejectedAsDuplicate
       /\ (PassesValidation(Submitted) /\ ~EmailStored(Users, Submitted.email))
            => AppendedAndPersisted(Submitted)]_vars

\* a duplicate registration was just rejected while the store holds a record
DuplicateRejected ==
  /\ currentPage[1] = "register"
  /\ error[1] = DuplicateEmailError
  /\ EmailStored(Users, formData[1].email)

\* ----------------------------------------------------------------- C3
\* some stored record has exactly this email and this password
CredentialsStored(db, email, pw) ==
  \E i \in 1..Len(db) : db[i].email = email /\ db[i].password = pw

\* the submission handed a stored record with these credentials to onLogin
LoggedInWith(email, pw) ==
  /\ currentUser'[1] # NULL
  /\ \E i \in 1..Len(Users) : Users[i] = The(currentUser'[1])
  /\ The(currentUser'[1]).email = email
  /\ The(currentUser'[1]).password = pw
  /\ currentPage'[1] = "profile"

\* every stored record can log in with its current email and password
StoredCredentialsLogIn ==
  currentPage[1] = "login" =>
    \A i \in 1..Len(Users) :
      ENABLED (/\ LoginSubmit(1, Users[i].email, Users[i].password)
               /\ currentUser'[1] # NULL
               /\ currentPage'[1] = "profile")

\* C3 as stated: a login submission succeeds and hands a matching record to
\* onLogin iff some stored record has exactly that email and password; any
\* mismatch fails with 'Invalid email or password' and leaves currentUser and
\* currentPage unchanged; a record's current email and password always log in
AuthenticateAsStated ==
  /\ [][\A typed \in TypedLogins :
          LoginSubmit(1, typed.email, typed.password) =>
            IF CredentialsStored(Users, typed.email, typed.password)
              THEN LoggedInWith(typed.email, typed.password)
              ELSE /\ error'[1] = InvalidCredentialsError
                   /\ UNCHANGED <<currentUser, currentPage>>]_vars
  /\ []StoredCredentialsLogIn

\* C3 amended: as stated, except that a mismatch fails with 'Invalid email or
\* password' when the email has the shape validateEmail accepts and the
\* password is not empty, and with a field error and no form-level error
\* otherwise
AuthenticateMatchesBoth ==
  /\ [][\A typed \in TypedLogins :
          LoginSubmit(1, typed.email, typed.password) =>
            IF CredentialsStored(Users, typed.email, typed.password)
              THEN LoggedInWith(typed.email, typed.password)
              ELSE /\ UNCHANGED <<currentUser, currentPage>>
                   /\ IF validateEmail(typed.email) /\ typed.password # <<>>
                        THEN error'[1] = InvalidCredentialsError
                        ELSE error'[1] = "" /\ fieldErrors'[1] # {}]_vars
  /\ []StoredCredentialsLogIn

\* the second of two different records has logged in: the scan passed a
\* record that did not match
SecondRecordLoggedIn ==
  /\ currentPage[1] = "profile"
  /\ Len(Users) = 2
  /\ currentUser[1] = Some(Users[2])
  /\ Users[1] # Users[2]

\* ----------------------------------------------------------------- C4
\* the names of an edit form are valid
NamesValid(edited) == ~Blank(edited.firstName) /\ ~Blank(edited.lastName)

\* a record other than the logged-in user's has this email
UsedByAnother(email) ==
  \E i \in 1..Len(Users) :
    Users[i].email = email /\ Users[i] # The(currentUser[1])

\* C4: a save (with valid names) whose email is already used by a different
\* record fails with 'This email is already in use' and leaves the
\* collection, the slot and currentUser unchanged; a save that keeps the
\* record's own email, with valid names, succeeds
UpdateChecksDuplicates ==
  [][(handleSave(1, Edited) /\ NamesValid(Edited)) =>
       /\ UsedByAnother(Edited.email) =>
            /\ fieldErrors'[1] = EmailInUseError
            /\ UNCHANGED <<userDatabase, localStorage, currentUser>>
       /\ Edited.email = The(currentUser[1]).email =>
            /\ fieldErrors'[1] = {}
            /\ ~isEditing'[1]
            /\ The(currentUser'[1]).email = Edited.email]_vars

\* ----------------------------------------------------------------- C5
\* C5: no two distinct records of the collection have the same id, also when
\* several registrations are submitted without Date.now() advancing
IdsUnique ==
  \A i \in 1..Len(Users) : \A j \in 1..Len(Users) :
    i # j => Users[i].id # Users[j].id

\* ----------------------------------------------------------------- C6
\* the ids of the records of db
Ids(db) == {db[i].id : i \in 1..Len(db)}

\* C6: records are never deleted: every id present in an instance's
\* collection or in the persisted slot is still there after any step, and
\* the number of records never decreases, also when another instance of the
\* app registers or edits over the same slot
RecordsNeverDeleted ==
  [][/\ \A t \in Tabs :
          /\ Ids(userDatabase[t]) \subseteq Ids(userDatabase'[t])
          /\ Len(userDatabase'[t]) >= Len(userDatabase[t])
     /\ Ids(Persisted) \subseteq Ids(Persisted')
     /\ Len(Persisted') >= Len(Persisted)]_vars

\* ----------------------------------------------------------------- C7
\* C7: in every state, initialising userDatabase again from the 'users'
\* slot yields the in-memory collection: same records, same field values,
\* same order
ReloadRoundTrip == LoadUsers(localStorage) = Users

\* two records are stored, one of them edited since its registration (the
\* registration forms give the name "B" another password)
EditedAndPersisted ==
  /\ Len(Users) = 2
  /\ \E i \in 1..2 : Users[i].firstName = <<"B">> /\ Users[i].password = pwSecret

\* ----------------------------------------------------------------- C8
\* the characters of a string
Chars(str) == {str[k] : k \in 1..Len(str)}

\* the criteria of the reference rule a password satisfies
Criteria(pw) ==
  {c \in {"length", "lowercase", "uppercase", "digit", "symbol"} :
     \/ c = "length" /\ Len(pw) >= 8
     \/ c = "lowercase" /\ Chars(pw) \cap LowerChars # {}
     \/ c = "uppercase" /\ Chars(pw) \cap UpperChars # {}
     \/ c = "digit" /\ Chars(pw) \cap DigitChars # {}
     \/ c = "symbol" /\ Chars(pw) \ (LowerChars \cup UpperChars \cup DigitChars) # {}}

\* the reference rule
ReferenceStrength(pw) ==
  IF Len(pw) < 6 THEN "weak"
  ELSE CASE Cardinality(Criteria(pw)) \in 0..2 -> "weak"
         [] Cardinality(Criteria(pw)) \in 3..4 -> "medium"
         [] Cardinality(Criteria(pw)) = 5 -> "strong"

\* C8: calculatePasswordStrength agrees with the reference rule on every
\* password, and the strength shown for a non-empty password field is the
\* reference strength; 'abc' and 'password' are weak, 'Password1!' is strong
StrengthMatchesReference ==
  /\ calculatePasswordStrength(passwordInput) = ReferenceStrength(passwordInput)
  /\ passwordInput # <<>> => passwordStrength = ReferenceStrength(passwordInput)
  /\ calculatePasswordStrength(<<"a", "b", "c">>) = "weak"
  /\ calculatePasswordStrength(<<"p", "a", "s", "s", "w", "o", "r", "d">>) = "weak"
  /\ calculatePasswordStrength(
       <<"P", "a", "s", "s", "w", "o", "r", "d", "1", "!">>) = "strong"

\* a typed password of exactly 8 characters is shown as strong
StrongAtEight == Len(passwordInput) = 8 /\ passwordStrength = "strong"

\* ----------------------------------------------------------------- C9
\* a record as registration validation leaves it
WellFormed(u) ==
  /\ ~Blank(u.firstName)
  /\ ~Blank(u.lastName)
  /\ validateEmail(u.email)
  /\ Len(u.password) >= 6

\* C9: a registration submission with a blank first or last name, a blank
\* or badly shaped email, a password shorter than 6 characters or a
\* confirmation different from the password leaves the collection and the
\* slot unchanged; every stored record has non-blank names, an email
\* validateEmail accepts and a password of 6 or more characters
ValidationFailuresDoNotMutate ==
  /\ [][(RegisterSubmit(1, Submitted) /\ ~PassesValidation(Submitted))
          => UNCHANGED <<userDatabase, localStorage>>]_vars
  /\ [](\A i \in 1..Len(Users) : WellFormed(Users[i]))

\* an invalid registration form was just rejected with records in the store
InvalidFormRejected ==
  /\ currentPage[1] = "register"
  /\ ~PassesValidation(formData[1])
  /\ fieldErrors[1] # {}
  /\ Len(Users) >= 1

\* ---------------------------------------------------------------- C10
\* the positions of the records with the id of u
PositionsOf(u) == {i \in 1..Len(Users) : Users[i].id = u.id}

\* C10: a successful save changes only firstName, lastName and email of the
\* one stored record whose id is the logged-in user's id; that record keeps
\* its position, id, password and memberSince, every other record is
\* unchanged, and so are the length and order of the collection
SaveChangesOneRecord ==
  [][(handleSave(1, Edited) /\ ~isEditing'[1]) =>
       /\ Cardinality(PositionsOf(The(currentUser[1]))) = 1
       /\ Len(Users') = Len(Users)
       /\ \A i \in 1..Len(Users) :
            IF i \in PositionsOf(The(currentUser[1]))
              THEN /\ Users'[i].id = Users[i].id
                   /\ Users'[i].password = Users[i].password
                   /\ Users'[i].memberSince = Users[i].memberSince
                   /\ Users'[i].firstName = Trim(Edited.firstName)
                   /\ Users'[i].lastName = Trim(Edited.lastName)
                   /\ Users'[i].email = Edited.email
              ELSE Users'[i] = Users[i]]_vars

\* ---------------------------------------------------------------- C11
\* C11: currentUser is non-null if and only if currentPage is 'profile', in
\* every reachable state, including those reached when the redirect timer of
\* a successful registration fires after the user has navigated to the login
\* page and logged in
SessionMatchesPage == (currentUser[1] # NULL) <=> (currentPage[1] = "profile")

\* ---------------------------------------------------------------- C12
\* there is a stored record with the id of the logged-in user, and every
\* stored record with that id is field for field the logged-in user
SessionEqualsStoredRecord ==
  currentUser[1] # NULL =>
    /\ \E i \in 1..Len(Users) : Users[i].id = The(currentUser[1]).id
    /\ \A i \in 1..Len(Users) :
         Users[i].id = The(currentUser[1]).id => Users[i] = The(currentUser[1])

\* C12: whenever a user is logged in, currentUser equals the stored record
\* with the same id; a successful save updates the store, the persisted slot
\* and currentUser to the same record; a cancelled or rejected edit changes
\* none of them
SessionStoreConsistent ==
  /\ []SessionEqualsStoredRecord
  /\ [][(handleSave(1, Edited) /\ ~isEditing'[1]) =>
          /\ currentUser'[1] = Some(UpdatedUser(The(currentUser[1]), Edited))
          /\ \E i \in 1..Len(Users') :
               /\ Users'[i] = The(currentUser'[1])
               /\ Persisted'[i] = The(currentUser'[1])]_vars
  /\ [][(handleCancel(1) \/ (handleSave(1, Edited) /\ isEditing'[1])) =>
          UNCHANGED <<userDatabase, localStorage, currentUser>>]_vars

\* ---------------------------------------------------------------- C13
\* an email of the shape local@domain.tld: no white space, one @ and that
\* not in front, and after it a dot with a character on either side
WellShaped(email) ==
  /\ \A k \in 1..Len(email) : email[k] \notin Whitespace
  /\ Cardinality({k \in 1..Len(email) : email[k] = "@"}) = 1
  /\ \E i \in 2..Len(email) :
       /\ email[i] = "@"
       /\ \E j \in (i + 2)..(Len(email) - 1) : email[j] = "."

EmailFieldError == {<<"email", "Please enter a valid email address">>}
PasswordFieldError == {<<"password", "Password is required">>}

\* C13: a login submission with a badly shaped email yields only the email
\* field error, whatever the store holds; otherwise an empty password yields
\* only the password field error; otherwise a search of the store that finds
\* nothing yields only the form-level 'Invalid email or password'; no
\* rejected submission changes the collection, the slot, currentUser or
\* currentPage
LoginChecksInOrder ==
  [][\A typed \in TypedLogins :
       LoginSubmit(1, typed.email, typed.password) =>
         IF ~WellShaped(typed.email)
           THEN /\ error'[1] = "" /\ fieldErrors'[1] = EmailFieldError
                /\ UNCHANGED <<userDatabase, localStorage, currentUser,
                               currentPage>>
         ELSE IF typed.password = <<>>
           THEN /\ error'[1] = "" /\ fieldErrors'[1] = PasswordFieldError
                /\ UNCHANGED <<userDatabase, localStorage, currentUser,
                               currentPage>>
         ELSE IF ~CredentialsStored(Users, typed.email, typed.password)
           THEN /\ error'[1] = InvalidCredentialsError /\ fieldErrors'[1] = {}
                /\ UNCHANGED <<userDatabase, localStorage, currentUser,
                               currentPage>>
         ELSE currentPage'[1] = "profile" /\ currentUser'[1] # NULL]_vars

\* a submission with neither email nor password was just rejected with the
\* email error alone, with records in the store
EmptyLoginRejected ==
  /\ currentPage[1] = "login"
  /\ loginForm[1] = Credentials(<<>>, <<>>)
  /\ error[1] = ""
  /\ fieldErrors[1] = EmailFieldError
  /\ Len(Users) >= 1

====
